---- MODULE Spec2Model ----
(***************************************************************************)
(* The Tren Maya staffing dashboard (app.py): one run of the script over   *)
(* an uploaded BD-EO sheet.  Header normalisation, alias resolution, the   *)
(* schema gate, row cleaning, the sidebar filters and the two tabs.        *)
(*                                                                         *)
(* Text is a sequence of one-character strings, so that strip, lower,      *)
(* upper and replace act on characters as the Python methods do.           *)
(***************************************************************************)
EXTENDS Integers, Sequences, FiniteSets, TLC

\* Canonical column names, as character sequences.
Unidad ==
    <<"U", "n", "i", "d", "a", "d">>
Coordinacion ==
    <<"C", "o", "o", "r", "d", "i", "n", "a", "c", "i", "ó", "n">>
Direccion ==
    <<"D", "i", "r", "e", "c", "c", "i", "ó", "n">>
TipoDePuesto ==
    <<"T", "i", "p", "o", " ", "d", "e", " ", "P", "u", "e", "s", "t", "o">>
NivelSalarial ==
    <<"N", "i", "v", "e", "l", " ", "S", "a", "l", "a", "r", "i", "a", "l">>
TipoDePlaza ==
    <<"T", "i", "p", "o", " ", "d", "e", " ", "P", "l", "a", "z", "a">>
Justificacion ==
    <<"J", "u", "s", "t", "i", "f", "i", "c", "a", "c", "i", "ó", "n">>
Plazas ==
    <<"P", "l", "a", "z", "a", "s">>
PlazasOcupadasVacantes ==
    <<"P", "L", "A", "Z", "A", "S", " ", "O", "C", "U", "P", "A", "D", "A", "S", "/", "V", "A", "C", "A", "N", "T", "E", "S">>

\* The alias table of apply_aliases: canonical name and its variants, in dict order.
aliases ==
    <<
      [canonical |-> Unidad,
       opts |-> <<<<"u", "n", "i", "d", "a", "d">>>>],
      [canonical |-> Coordinacion,
       opts |-> <<<<"c", "o", "o", "r", "d", "i", "n", "a", "c", "i", "ó", "n">>,
                 <<"c", "o", "o", "r", "d", "i", "n", "a", "c", "i", "o", "n">>>>],
      [canonical |-> Direccion,
       opts |-> <<<<"d", "i", "r", "e", "c", "c", "i", "ó", "n">>,
                 <<"d", "i", "r", "e", "c", "c", "i", "o", "n">>>>],
      [canonical |-> TipoDePuesto,
       opts |-> <<<<"t", "i", "p", "o", " ", "d", "e", " ", "p", "u", "e", "s", "t", "o">>,
                 <<"t", "i", "p", "o", " ", "p", "u", "e", "s", "t", "o">>,
                 <<"t", "i", "p", "o", "_", "p", "u", "e", "s", "t", "o">>>>],
      [canonical |-> NivelSalarial,
       opts |-> <<<<"n", "i", "v", "e", "l", " ", "s", "a", "l", "a", "r", "i", "a", "l">>,
                 <<"n", "i", "v", "e", "l", "_", "s", "a", "l", "a", "r", "i", "a", "l">>>>],
      [canonical |-> TipoDePlaza,
       opts |-> <<<<"t", "i", "p", "o", " ", "d", "e", " ", "p", "l", "a", "z", "a">>,
                 <<"t", "i", "p", "o", " ", "p", "l", "a", "z", "a">>,
                 <<"t", "i", "p", "o", "_", "p", "l", "a", "z", "a">>>>],
      [canonical |-> Justificacion,
       opts |-> <<<<"j", "u", "s", "t", "i", "f", "i", "c", "a", "c", "i", "ó", "n">>,
                 <<"j", "u", "s", "t", "i", "f", "i", "c", "a", "c", "i", "o", "n">>>>],
      [canonical |-> Plazas,
       opts |-> <<<<"p", "l", "a", "z", "a", "s">>,
                 <<"n", "o", ".", " ", "p", "l", "a", "z", "a", "s">>,
                 <<"n", "ú", "m", "e", "r", "o", " ", "d", "e", " ", "p", "l", "a", "z", "a", "s">>,
                 <<"n", "u", "m", "e", "r", "o", " ", "d", "e", " ", "p", "l", "a", "z", "a", "s">>,
                 <<"n", "u", "m", " ", "p", "l", "a", "z", "a", "s">>>>],
      [canonical |-> PlazasOcupadasVacantes,
       opts |-> <<<<"p", "l", "a", "z", "a", "s", " ", "o", "c", "u", "p", "a", "d", "a", "s", "/", "v", "a", "c", "a", "n", "t", "e", "s">>,
                 <<"p", "l", "a", "z", "a", "s", " ", "o", "c", "u", "p", "a", "d", "a", "s", " ", "v", "a", "c", "a", "n", "t", "e", "s">>,
                 <<"o", "c", "u", "p", "a", "d", "a", "s", "/", "v", "a", "c", "a", "n", "t", "e", "s">>,
                 <<"p", "l", "a", "z", "a", "s", " ", "o", "c", "u", "p", "a", "d", "a", "s">>,
                 <<"v", "a", "c", "a", "n", "t", "e", "s">>>>]
    >>

ORDEN_PUESTO ==
    <<<<"D", "i", "r", "e", "c", "c", "i", "ó", "n", " ", "G", "e", "n", "e", "r", "a", "l">>,
      <<"T", "i", "t", "u", "l", "a", "r", " ", "d", "e", " ", "U", "n", "i", "d", "a", "d">>,
      <<"C", "o", "o", "r", "d", "i", "n", "a", "d", "o", "r", " ", "G", "e", "n", "e", "r", "a", "l">>,
      <<"D", "i", "r", "e", "c", "t", "o", "r", " ", "d", "e", " ", "á", "r", "e", "a">>,
      <<"G", "e", "r", "e", "n", "t", "e">>,
      <<"S", "u", "b", "g", "e", "r", "e", "n", "t", "e">>,
      <<"E", "n", "l", "a", "c", "e">>,
      <<"O", "p", "e", "r", "a", "t", "i", "v", "o">>>>
SinTipoDePuesto ==
    <<"S", "i", "n", " ", "T", "i", "p", "o", " ", "d", "e", " ", "P", "u", "e", "s", "t", "o">>
SinDireccion ==
    <<"S", "i", "n", " ", "D", "i", "r", "e", "c", "c", "i", "ó", "n">>
SinNivelSalarial ==
    <<"S", "i", "n", " ", "N", "i", "v", "e", "l", " ", "S", "a", "l", "a", "r", "i", "a", "l">>
SinTipoDePlaza ==
    <<"S", "i", "n", " ", "T", "i", "p", "o", " ", "d", "e", " ", "P", "l", "a", "z", "a">>
TOTAL ==
    <<"T", "O", "T", "A", "L">>
TOTALES ==
    <<"T", "O", "T", "A", "L", "E", "S">>
NAN ==
    <<"N", "A", "N">>
NONE ==
    <<"N", "O", "N", "E">>

CasePairs ==
    {<<"a", "A">>, <<"b", "B">>, <<"c", "C">>, <<"d", "D">>, <<"e", "E">>, <<"f", "F">>,
     <<"g", "G">>, <<"h", "H">>, <<"i", "I">>, <<"j", "J">>, <<"k", "K">>, <<"l", "L">>,
     <<"m", "M">>, <<"n", "N">>, <<"o", "O">>, <<"p", "P">>, <<"q", "Q">>, <<"r", "R">>,
     <<"s", "S">>, <<"t", "T">>, <<"u", "U">>, <<"v", "V">>, <<"w", "W">>, <<"x", "X">>,
     <<"y", "Y">>, <<"z", "Z">>, <<"á", "Á">>, <<"é", "É">>, <<"í", "Í">>, <<"ó", "Ó">>,
     <<"ú", "Ú">>}

(***************************************************************************)
(* Python str methods on character sequences.                              *)
(***************************************************************************)

\* The characters str.strip() removes (those that occur in the model).
Whitespace ==
    {" ", "\n", "\r", "\t"}

\* str.strip()
Strip(s) ==
    LET keep == {i \in 1..Len(s) : s[i] \notin Whitespace}
    IN  IF keep = {} THEN <<>>
        ELSE SubSeq(s, CHOOSE i \in keep : \A j \in keep : i <= j,
                       CHOOSE i \in keep : \A j \in keep : i >= j)

\* str.replace(a, b) for single characters a, b
ReplaceChar(s, a, b) ==
    [i \in 1..Len(s) |-> IF s[i] = a THEN b ELSE s[i]] \o <<>>

\* str.replace("  ", " "): one left-to-right pass over non-overlapping pairs
RECURSIVE ReplaceDouble(_)
ReplaceDouble(s) ==
    IF Len(s) < 2 THEN s
    ELSE IF s[1] = " " /\ s[2] = " "
         THEN <<" ">> \o ReplaceDouble(SubSeq(s, 3, Len(s)))
         ELSE <<s[1]>> \o ReplaceDouble(Tail(s))

\* '"  " in s'
HasDouble(s) ==
    \E i \in 1..(Len(s) - 1) : s[i] = " " /\ s[i + 1] = " "

\* while "  " in s: s = s.replace("  ", " ")
RECURSIVE CollapseSpaces(_)
CollapseSpaces(s) ==
    IF HasDouble(s) THEN CollapseSpaces(ReplaceDouble(s)) ELSE s

\* str.lower() and str.upper(), character by character
LowerMap ==
    [c \in {p[2] : p \in CasePairs} |-> (CHOOSE p \in CasePairs : p[2] = c)[1]]

UpperMap ==
    [c \in {p[1] : p \in CasePairs} |-> (CHOOSE p \in CasePairs : p[1] = c)[2]]

LowerCh(c) ==
    IF c \in DOMAIN LowerMap THEN LowerMap[c] ELSE c

UpperCh(c) ==
    IF c \in DOMAIN UpperMap THEN UpperMap[c] ELSE c

Lower(s) ==
    [i \in 1..Len(s) |-> LowerCh(s[i])] \o <<>>

Upper(s) ==
    [i \in 1..Len(s) |-> UpperCh(s[i])] \o <<>>

(***************************************************************************)
(* Header Normalizer and Alias Resolver.                                   *)
(***************************************************************************)

\* The body of normalize_columns for one header label.
NormalizeHeader(h) ==
    Strip(ReplaceDouble(
        ReplaceChar(ReplaceChar(ReplaceChar(h, "\n", " "), "\r", " "), "\t", " ")))

normalize_columns(cols) ==
    [i \in 1..Len(cols) |-> NormalizeHeader(cols[i])]

\* A variant of norm that leaves the letter case alone.
normKeepCase(s) ==
    CollapseSpaces(
        ReplaceChar(ReplaceChar(ReplaceChar(Strip(s), "\n", " "), "\r", " "), "\t", " "))

\* The local function norm of apply_aliases.
norm(s) ==
    CollapseSpaces(
        ReplaceChar(ReplaceChar(ReplaceChar(Lower(Strip(s)), "\n", " "), "\r", " "),
                    "\t", " "))

\* The keys of col_norm_map = {norm(c): c for c in df.columns}, by column.
NormKeys(cols) ==
    [i \in 1..Len(cols) |-> norm(cols[i])] \o <<>>

\* col_norm_map[key]: a later column with the same key overwrites an earlier one.
ColNormMap(cols, keys, key) ==
    LET hits == {i \in 1..Len(cols) : keys[i] = key}
    IN  cols[CHOOSE i \in hits : \A j \in hits : j <= i]

\* key = norm(opt), for every opt of the alias table.
AliasKeys ==
    [a \in 1..Len(aliases) |->
        [k \in 1..Len(aliases[a].opts) |-> norm(aliases[a].opts[k])] \o <<>>] \o <<>>

\* The inner loop over the opts of entry a: the first alias whose key is in
\* col_norm_map; <<>> stands for None (both are falsy in the test that follows).
FoundOriginal(cols, keys, a) ==
    LET present == {keys[i] : i \in 1..Len(keys)}
        hits    == {k \in 1..Len(AliasKeys[a]) : AliasKeys[a][k] \in present}
    IN  IF hits = {} THEN <<>>
        ELSE ColNormMap(cols, keys, AliasKeys[a][CHOOSE k \in hits : \A j \in hits : k <= j])

\* rename_map as a list over the alias table: the key each entry wrote, or <<>>
\* when "found_original and found_original in df.columns" failed.
RenameKeys(cols) ==
    LET keys == NormKeys(cols)
    IN  [a \in 1..Len(aliases) |->
            LET found == FoundOriginal(cols, keys, a)
            IN  IF found # <<>> /\ \E i \in 1..Len(cols) : cols[i] = found
                THEN found ELSE <<>>] \o <<>>

\* df.rename(columns=rename_map): every column whose label is a key is renamed;
\* a key written twice keeps the later value.
Rename(cols, rkeys) ==
    [i \in 1..Len(cols) |->
        LET es == {a \in 1..Len(aliases) : rkeys[a] # <<>> /\ rkeys[a] = cols[i]}
        IN  IF es = {} THEN cols[i]
            ELSE aliases[CHOOSE a \in es : \A b \in es : b <= a].canonical]

apply_aliases(cols) ==
    Rename(cols, RenameKeys(cols))

\* The list required of ensure_required.
required ==
    <<Unidad, Coordinacion, Direccion, TipoDePuesto, NivelSalarial, TipoDePlaza,
      Justificacion, Plazas>>

\* A variant of Missing whose list of required columns ends before Plazas.
MissingWithoutPlazas(cols) ==
    SelectSeq(SubSeq(required, 1, Len(required) - 1),
              LAMBDA c : \A i \in 1..Len(cols) : cols[i] # c)

\* missing = [c for c in required if c not in df.columns]
Missing(cols) ==
    SelectSeq(required, LAMBDA c : \A i \in 1..Len(cols) : cols[i] # c)

(***************************************************************************)
(* Cell values: a missing cell (NaN), a number, or text.  A number is      *)
(* kept as twice its value, so that halves (0.5, 1.5) are representable    *)
(* and int() has something to truncate.                                    *)
(***************************************************************************)

Null ==
    [t |-> "null", n |-> 0, s |-> <<>>]

Num(twice) ==
    [t |-> "num", n |-> twice, s |-> <<>>]

Str(s) ==
    [t |-> "str", n |-> 0, s |-> s]

Digits ==
    <<"0", "1", "2", "3", "4", "5", "6", "7", "8", "9">>

\* Decimal digits of a natural number.
RECURSIVE NatText(_)
NatText(k) ==
    IF k < 10 THEN <<Digits[k + 1]>>
    ELSE NatText(k \div 10) \o <<Digits[(k % 10) + 1]>>

\* str(x) of a number: "2", "-1", "0.5", "-1.5".
NumText(twice) ==
    LET mag == IF twice < 0 THEN -twice ELSE twice
    IN  (IF twice < 0 THEN <<"-">> ELSE <<>>)
        \o NatText(mag \div 2)
        \o (IF mag % 2 = 1 THEN <<".", "5">> ELSE <<>>)

\* One cell of Series.astype(str): a missing cell becomes the text "nan".
AsText(v) ==
    CASE v.t = "null" -> <<"n", "a", "n">>
      [] v.t = "num"  -> NumText(v.n)
      [] OTHER        -> v.s

\* safe_text_series, one cell: astype(str) then str.strip().
safe_text_series(v) ==
    Strip(AsText(v))

IsDigit(c) ==
    \E d \in 1..Len(Digits) : Digits[d] = c

RECURSIVE DigitsValue(_)
DigitsValue(s) ==
    IF s = <<>> THEN 0
    ELSE 10 * DigitsValue(SubSeq(s, 1, Len(s) - 1))
         + ((CHOOSE d \in 1..Len(Digits) : Digits[d] = s[Len(s)]) - 1)

\* One cell of pd.to_numeric(..., errors="coerce"): a number stays, text made
\* of digits parses, any other text and a missing cell give NaN.
ToNumeric(v) ==
    CASE v.t = "num" -> v
      [] v.t = "str" /\ v.s # <<>> /\ (\A i \in 1..Len(v.s) : IsDigit(v.s[i]))
                     -> Num(2 * DigitsValue(v.s))
      [] OTHER       -> Null

\* int(x): truncation toward zero.
IntOf(twice) ==
    IF twice >= 0 THEN twice \div 2 ELSE -((-twice) \div 2)

(***************************************************************************)
(* The DataFrame: a list of column labels and a list of rows; a row holds  *)
(* one cell per column position.                                           *)
(***************************************************************************)

\* Positions of the columns labelled name.
Pos(cols, name) ==
    {i \in 1..Len(cols) : cols[i] = name}

\* df[name] is a Series only when one column carries the label; with two it
\* is a DataFrame, and the Series methods applied to it raise.
Ambiguous(cols, name) ==
    Cardinality(Pos(cols, name)) > 1

Col(cols, name) ==
    CHOOSE i \in Pos(cols, name) : TRUE

Cell(cols, row, name) ==
    row[Col(cols, name)]

\* df["Plazas"] = pd.to_numeric(df["Plazas"], errors="coerce")
coerce_plazas_numeric(cols, rs) ==
    [r \in 1..Len(rs) |->
        [rs[r] EXCEPT ![Col(cols, Plazas)] = ToNumeric(rs[r][Col(cols, Plazas)])]]

\* safe_text_series(df[col]).str.upper().isin(["TOTAL", "TOTALES"]), one cell
IsTotalLike(v) ==
    Upper(safe_text_series(v)) \in {TOTAL, TOTALES}

\* The loop of drop_total_like_rows over the key columns still to visit.
RECURSIVE DropTotals(_, _, _)
DropTotals(cols, rs, keys) ==
    IF keys = <<>> THEN rs
    ELSE DropTotals(cols,
                    IF Pos(cols, Head(keys)) # {}
                    THEN SelectSeq(rs, LAMBDA row : ~IsTotalLike(Cell(cols, row, Head(keys))))
                    ELSE rs,
                    Tail(keys))

\* A variant of TotalColumns with the two columns the docstring names.
TotalColumnsOfDocstring ==
    <<Direccion, TipoDePlaza>>

TotalColumns ==
    <<Direccion, TipoDePlaza, Unidad, Coordinacion>>

drop_total_like_rows(cols, rs) ==
    DropTotals(cols,
               SelectSeq(rs, LAMBDA row : Cell(cols, row, TipoDePlaza).t # "null"),
               TotalColumns)

\* sorted(df[name].dropna().unique()), as a set: the options of a multiselect.
Options(cols, rs, name) ==
    {Cell(cols, rs[r], name) : r \in 1..Len(rs)} \ {Null}

\* sorted() raises TypeError when it has to compare a number with text.
SortRaises(vals) ==
    (\E v \in vals : v.t = "num") /\ (\E v \in vals : v.t = "str")

\* df_f = df_f[df_f[name].isin(chosen)], skipped when nothing is chosen
Restrict(cols, rs, name, chosen) ==
    IF chosen = {} THEN rs
    ELSE SelectSeq(rs, LAMBDA row : Cell(cols, row, name) \in chosen)

\* A variant of FilterEngine without the Coordinación restriction.
FilterEngineSkipCoord(cols, rs, s) ==
    Restrict(cols, Restrict(cols, rs, Unidad, s.unidad), Direccion, s.dir)

\* The filter engine: Unidad, then Coordinación, then Dirección.
FilterEngine(cols, rs, s) ==
    Restrict(cols,
             Restrict(cols, Restrict(cols, rs, Unidad, s.unidad),
                      Coordinacion, s.coord),
             Direccion, s.dir)

(***************************************************************************)
(* Aggregations of the two tabs.                                           *)
(***************************************************************************)

\* Series.fillna(label)
FillNa(series, label) ==
    [i \in 1..Len(series) |-> IF series[i].t = "null" THEN Str(label) ELSE series[i]]

Column(cols, rs, name) ==
    [r \in 1..Len(rs) |-> Cell(cols, rs[r], name)]

Values(series) ==
    {series[i] : i \in 1..Len(series)}

CountOf(series, v) ==
    Cardinality({i \in 1..Len(series) : series[i] = v})

\* Series.value_counts(): the distinct values with their counts, by
\* descending count; pandas does not fix the order among equal counts.
ValueCounts(series) ==
    LET vals == Values(series)
        n    == Cardinality(vals)
    IN  {[i \in 1..n |-> <<f[i], CountOf(series, f[i])>>] :
            f \in {g \in [1..n -> vals] :
                     /\ \A i, j \in 1..n : i # j => g[i] # g[j]
                     /\ \A i \in 1..(n - 1) :
                            CountOf(series, g[i]) >= CountOf(series, g[i + 1])}}

\* value_counts() without its order: label -> count pairs.
Tally(series) ==
    {<<v, CountOf(series, v)>> : v \in Values(series)}

InOrden(v) ==
    v.t = "str" /\ \E k \in 1..Len(ORDEN_PUESTO) : ORDEN_PUESTO[k] = v.s

\* value_counts().reindex(ORDEN_PUESTO).dropna(): the hierarchy's values that
\* occur, in hierarchy order.
Reindexed(series) ==
    LET present == SelectSeq(ORDEN_PUESTO, LAMBDA p : Str(p) \in Values(series))
    IN  [k \in 1..Len(present) |-> <<Str(present[k]), CountOf(series, Str(present[k]))>>]

\* value_counts().drop(index=ORDEN_PUESTO, errors="ignore")
Otros(vc) ==
    SelectSeq(vc, LAMBDA e : ~InOrden(e[1]))

\* A variant of PuestoCount without the reindex: value_counts() as it comes.
PuestoCountByFrequency(series, vc) ==
    vc

\* puesto_count after the concat
PuestoCount(series, vc) ==
    Reindexed(series) \o Otros(vc)

\* A variant of IsJustified without the NAN/NONE filter.
IsJustifiedNonBlank(v) ==
    Strip(AsText(v)) # <<>>

\* The three filters that build df_j from the Justificación text.
IsJustified(v) ==
    LET txt == Strip(AsText(v))
    IN  txt # <<>> /\ Upper(txt) \notin {NAN, NONE}

\* df_j: the justified rows, Justificación converted to text.
JustifiedRows(cols, rs) ==
    LET j    == Col(cols, Justificacion)
        kept == SelectSeq(rs, LAMBDA row : IsJustified(row[j]))
    IN  [r \in 1..Len(kept) |-> [kept[r] EXCEPT ![j] = Str(AsText(kept[r][j]))]]

\* One cell of Series.fillna(0), as twice its value.
FillZero(v) ==
    IF v.t = "null" THEN 0 ELSE v.n

RECURSIVE SumPlazas(_, _)
SumPlazas(cols, rs) ==
    IF rs = <<>> THEN 0
    ELSE FillZero(ToNumeric(Cell(cols, Head(rs), Plazas))) + SumPlazas(cols, Tail(rs))

\* int(pd.to_numeric(df_j["Plazas"], errors="coerce").fillna(0).sum())
PlazasSuma(cols, dfj) ==
    IntOf(SumPlazas(cols, dfj))

TablaColumns ==
    <<Unidad, Coordinacion, Direccion, TipoDePuesto, TipoDePlaza, Plazas, Justificacion>>

\* df_j[[...]]: the seven columns of the justification table
Tabla(cols, dfj) ==
    [r \in 1..Len(dfj) |->
        [k \in 1..Len(TablaColumns) |-> Cell(cols, dfj[r], TablaColumns[k])]]

(***************************************************************************)
(* State of one run of the script.                                         *)
(***************************************************************************)

VARIABLES
    pc,        \* the last stage of the script that completed
    halt,      \* "no" while running, "stop" after st.stop(), "raise" after an exception
    uploaded,  \* the sheet as read by pd.read_excel: [columns, rows]
    columns,   \* df.columns
    rows,      \* the rows of df
    sel,       \* unidad_sel, coord_sel, dir_sel
    df_f,      \* the rows of the filtered view
    out        \* what the page shows

vars ==
    <<pc, halt, uploaded, columns, rows, sel, df_f, out>>

NoSelection ==
    [unidad |-> {}, coord |-> {}, dir |-> {}]

EmptyPage ==
    [shown |-> {}, missing |-> <<>>, detected |-> <<>>,
     dir_count |-> {}, puesto_count |-> <<>>, nivel_count |-> {}, plaza_count |-> {},
     suma |-> 0, justificados |-> 0, detalle |-> 0, tabla |-> <<>>]

\* Lines 185-186, first statement: df = normalize_columns(df)
NormalizeColumns ==
    /\ pc = "read" /\ halt = "no"
    /\ columns' = normalize_columns(columns)
    /\ pc' = "normalized"
    /\ UNCHANGED <<halt, uploaded, rows, sel, df_f, out>>

\* df = apply_aliases(df)
ApplyAliases ==
    /\ pc = "normalized" /\ halt = "no"
    /\ columns' = apply_aliases(columns)
    /\ pc' = "aliased"
    /\ UNCHANGED <<halt, uploaded, rows, sel, df_f, out>>

\* ensure_required(df): st.error, st.write and st.stop when a column is missing
EnsureRequired ==
    /\ pc = "aliased" /\ halt = "no"
    /\ IF Missing(columns) # <<>>
       THEN /\ out' = [out EXCEPT !.shown = {"error", "detected"},
                                  !.missing = Missing(columns),
                                  !.detected = columns]
            /\ halt' = "stop"
            /\ pc' = pc
       ELSE /\ pc' = "validated"
            /\ UNCHANGED <<halt, out>>
    /\ UNCHANGED <<uploaded, columns, rows, sel, df_f>>

\* df = coerce_plazas_numeric(df)
CoercePlazasNumeric ==
    /\ pc = "validated" /\ halt = "no"
    /\ IF Ambiguous(columns, Plazas)
       THEN /\ halt' = "raise"
            /\ UNCHANGED <<pc, rows>>
       ELSE /\ rows' = coerce_plazas_numeric(columns, rows)
            /\ pc' = "coerced"
            /\ UNCHANGED halt
    /\ UNCHANGED <<uploaded, columns, sel, df_f, out>>

\* df = drop_total_like_rows(df)
DropTotalLikeRows ==
    /\ pc = "coerced" /\ halt = "no"
    /\ IF \E k \in 1..Len(TotalColumns) : Ambiguous(columns, TotalColumns[k])
       THEN /\ halt' = "raise"
            /\ UNCHANGED <<pc, rows>>
       ELSE /\ rows' = drop_total_like_rows(columns, rows)
            /\ pc' = "cleaned"
            /\ UNCHANGED halt
    /\ UNCHANGED <<uploaded, columns, sel, df_f, out>>

\* Lines 196-212: the options, the three multiselects and the filter engine.
Filters ==
    /\ pc = "cleaned" /\ halt = "no"
    /\ LET unidad_opts == Options(columns, rows, Unidad)
           coord_opts  == Options(columns, rows, Coordinacion)
           dir_opts    == Options(columns, rows, Direccion)
       IN  IF SortRaises(unidad_opts) \/ SortRaises(coord_opts) \/ SortRaises(dir_opts)
           THEN /\ halt' = "raise"
                /\ UNCHANGED <<pc, sel, df_f>>
           ELSE /\ \E u \in SUBSET unidad_opts, c \in SUBSET coord_opts,
                      d \in SUBSET dir_opts :
                      /\ sel' = [unidad |-> u, coord |-> c, dir |-> d]
                      /\ df_f' = FilterEngine(columns, rows, sel')
                /\ pc' = "filtered"
                /\ UNCHANGED halt
    /\ UNCHANGED <<uploaded, columns, rows, out>>

\* Lines 222-342: the four charts of the first tab, in script order.
Tab1 ==
    /\ pc = "filtered" /\ halt = "no"
    /\ LET dir_count == Tally(FillNa(Column(columns, df_f, Direccion), SinDireccion))
       IN  IF Ambiguous(columns, TipoDePuesto)
           THEN /\ out' = [out EXCEPT !.shown = {"dir"}, !.dir_count = dir_count]
                /\ halt' = "raise"
                /\ pc' = pc
           ELSE LET puesto_series ==
                        FillNa(Column(columns, df_f, TipoDePuesto), SinTipoDePuesto)
                IN  \E vc \in ValueCounts(puesto_series) :
                      IF Ambiguous(columns, NivelSalarial)
                      THEN /\ out' = [out EXCEPT
                                        !.shown = {"dir", "puesto"},
                                        !.dir_count = dir_count,
                                        !.puesto_count = PuestoCount(puesto_series, vc)]
                           /\ halt' = "raise"
                           /\ pc' = pc
                      ELSE /\ out' = [out EXCEPT
                                        !.shown = {"dir", "puesto", "nivel", "plaza"},
                                        !.dir_count = dir_count,
                                        !.puesto_count = PuestoCount(puesto_series, vc),
                                        !.nivel_count =
                                            Tally(FillNa(Column(columns, df_f, NivelSalarial),
                                                         SinNivelSalarial)),
                                        !.plaza_count =
                                            Tally(FillNa(Column(columns, df_f, TipoDePlaza),
                                                         SinTipoDePlaza))]
                           /\ pc' = "tab1"
                           /\ UNCHANGED halt
    /\ UNCHANGED <<uploaded, columns, rows, sel, df_f>>

\* Lines 347-378: the justified rows, the three KPIs and the table.
Tab2 ==
    /\ pc = "tab1" /\ halt = "no"
    /\ IF Ambiguous(columns, Justificacion)
       THEN /\ halt' = "raise"
            /\ UNCHANGED <<pc, out>>
       ELSE LET df_j == JustifiedRows(columns, df_f)
            IN  /\ out' = [out EXCEPT
                             !.shown = @ \cup {"kpis", "tabla"},
                             !.suma = PlazasSuma(columns, df_j),
                             !.justificados = Len(df_j),
                             !.detalle = Len(df_f),
                             !.tabla = Tabla(columns, df_j)]
                /\ pc' = "tab2"
                /\ UNCHANGED halt
    /\ UNCHANGED <<uploaded, columns, rows, sel, df_f>>

Next ==
    \/ NormalizeColumns
    \/ ApplyAliases
    \/ EnsureRequired
    \/ CoercePlazasNumeric
    \/ DropTotalLikeRows
    \/ Filters
    \/ Tab1
    \/ Tab2

(***************************************************************************)
(* Uploaded sheets.  pd.read_excel gives every column its own label (it    *)
(* renames exact duplicates), so the raw labels of a sheet are distinct.   *)
(***************************************************************************)

\* Longest header label drawn character by character.
MaxLen == 5

\* Most rows of a sheet drawn for the cleaning and filtering cases.
MaxCleanRows == 3

\* Most rows of a sheet drawn for the aggregation cases.
MaxAggRows == 3

\* Cell texts of the sheets.
U1 ==
    <<"U", "1">>

U2 ==
    <<"U", "2">>

Co1 ==
    <<"C", "1">>

Co2 ==
    <<"C", "2">>

D1 ==
    <<"D", "1">>

D2 ==
    <<"D", "2">>

N1 ==
    <<"N", "1">>

Base ==
    <<"B", "a", "s", "e">>

Ok ==
    <<"o", "k">>

Gerente ==
    <<"G", "e", "r", "e", "n", "t", "e">>

Enlace ==
    <<"E", "n", "l", "a", "c", "e">>

Operativo ==
    <<"O", "p", "e", "r", "a", "t", "i", "v", "o">>

Asesor ==
    <<"A", "s", "e", "s", "o", "r">>

Becario ==
    <<"B", "e", "c", "a", "r", "i", "o">>

\* A row of a sheet with the canonical columns, in the order of required.
Row(unidad, coord, dir, puesto, plaza, just, plazas) ==
    <<unidad, coord, dir, puesto, Str(N1), plaza, just, plazas>>

\* Rows for the Row Cleaner and the Filter Engine: plain rows, total rows in
\* each key column, missing and numeric cells.
CleanPalette ==
    {Row(Str(U1), Str(Co1), Str(D1), Str(Gerente), Str(Base), Str(Ok), Num(4)),
     Row(Str(U1), Str(Co2), Str(D2), Str(Gerente), Str(Base), Str(Ok), Num(4)),
     Row(Str(U2), Str(Co1), Str(D2), Str(Gerente), Str(Base), Null, Num(4)),
     Row(Str(U1), Str(Co1), Str(<<" ", "T", "o", "t", "a", "l">>), Null, Str(Base), Null, Num(8)),
     Row(Str(TOTALES), Null, Null, Null, Str(Base), Null, Num(8)),
     Row(Str(U1), Str(<<"t", "o", "t", "a", "l", "e", "s", "\t">>), Str(D1), Str(Gerente),
         Str(Base), Str(Ok), Num(4)),
     Row(Str(U1), Str(Co1), Str(D1), Str(Gerente), Null, Str(Ok), Num(4)),
     Row(Str(U1), Str(Co1), Str(D1), Str(Gerente), Str(<<"t", "o", "t", "a", "l", " ">>),
         Str(Ok), Num(4)),
     Row(Null, Str(<<"T", "O", "T", "A", "L", " ", "C", "1">>), Null, Str(Gerente), Num(6),
         Str(Ok), Num(4)),
     Row(Num(4), Str(Co1), Str(D1), Str(Gerente), Str(Base), Str(Ok), Num(4))}

\* Rows for the two tabs: position types inside and outside ORDEN_PUESTO,
\* Justificación and Plazas cells of every kind.
AggPalette ==
    {Row(Str(U1), Null, Str(D1), Str(Gerente), Str(Base), Str(Ok), Num(4)),
     Row(Str(U1), Null, Str(D1), Str(Enlace), Str(Base), Str(Ok), Str(<<"3">>)),
     Row(Str(U2), Null, Str(D1), Str(Enlace), Str(Base), Str(<<" ">>), Num(2)),
     Row(Str(U1), Null, Str(D1), Str(Asesor), Str(Base), Str(<<" ", "N", "o", "n", "e">>),
         Str(<<"x">>)),
     Row(Str(U2), Null, Str(D1), Str(Becario), Str(Base), Null, Null),
     Row(Str(U1), Null, Str(D1), Null, Str(Base), Str(NAN), Num(1)),
     Row(Str(U1), Null, Null, Str(SinTipoDePuesto), Str(Base), Num(7), Num(-3)),
     Row(Str(U2), Null, Str(D1), Str(Asesor), Str(Base), Str(Ok), Null),
     Row(Str(U1), Null, Str(D1), Str(Operativo), Str(Base), Str(Ok), Num(1))}

\* The rows under every sheet drawn for its header row.
HeaderSheetRows ==
    <<Row(Str(U1), Null, Null, Str(Gerente), Str(Base), Str(Ok), Num(4)),
      Row(Str(U1), Str(Co1), Str(TOTAL), Str(Enlace), Str(Base), Null, Str(<<"1", "2">>))>>

\* A sheet: one column per entry of scn, [hdr |-> label, slot |-> template cell
\* it carries (0: a column outside the template)].
BuildSheet(scn, templates) ==
    [columns |-> [i \in 1..Len(scn) |-> scn[i].hdr],
     rows    |-> [r \in 1..Len(templates) |->
                    [i \in 1..Len(scn) |->
                        IF scn[i].slot = 0 THEN Str(<<"x">>)
                        ELSE templates[r][scn[i].slot]]]]

BaseScn ==
    [f \in 1..Len(required) |-> [hdr |-> required[f], slot |-> f]]

Distinct(scn) ==
    \A i, j \in 1..Len(scn) : i # j => scn[i].hdr # scn[j].hdr

\* Spellings of an alias: letter case and surrounding whitespace.
Cases ==
    {"asis", "upper", "capital"}

Pads ==
    {<<<<>>, <<>>>>, <<<<" ">>, <<>>>>, <<<<>>, <<"\n">>>>, <<<<"\t", " ">>, <<" ", " ">>>>}

Spell(v, case, pad) ==
    pad[1]
    \o (CASE case = "upper"   -> Upper(v)
          [] case = "capital" -> <<UpperCh(v[1])>> \o Tail(v)
          [] OTHER            -> v)
    \o pad[2]

SpellingsOf(v) ==
    {Spell(v, c, p) : c \in Cases, p \in Pads}

Noise ==
    <<"O", "b", "s", "e", "r", "v", "a", "c", "i", "o", "n", "e", "s">>

\* Labels that may accompany the spelled alias of field f: none (<<>>), a label
\* no alias matches, the canonical name, or a spelling of any alias of f.
Companions(f) ==
    {<<>>, Noise, aliases[f].canonical, aliases[f].canonical \o <<" ">>}
    \cup UNION {{aliases[f].opts[k], aliases[f].opts[k] \o <<" ">>,
                 Upper(aliases[f].opts[k])} : k \in 1..Len(aliases[f].opts)}

\* Field f spelled as s, with companion label e in front or at the back.
AliasScn(f, s, e, front) ==
    LET main  == IF f <= Len(required)
                 THEN [BaseScn EXCEPT ![f].hdr = s]
                 ELSE BaseScn \o <<[hdr |-> s, slot |-> 0]>>
        extra == <<[hdr |-> e, slot |-> IF f <= Len(required) THEN f ELSE 0]>>
    IN  IF e = <<>> THEN main
        ELSE IF front THEN extra \o main ELSE main \o extra

\* The base sheet without the fields outside keep.
RECURSIVE Keep(_, _)
Keep(scn, keep) ==
    IF scn = <<>> THEN <<>>
    ELSE (IF Head(scn).slot \in keep THEN <<Head(scn)>> ELSE <<>>)
         \o Keep(Tail(scn), keep)

\* The characters of the labels drawn character by character.
Alphabet ==
    {"a", " ", "\n", "\r", "\t"}

\* "Tipo", a gap of whitespace, "de Plaza": a label for the sixth column.
GapLabel(gap) ==
    <<"T", "i", "p", "o">> \o gap \o <<"d", "e", " ", "P", "l", "a", "z", "a">>

\* The sheet of the end-to-end scenario: "Dirección\n", "Tipo  de Plaza", "Plazas ".
EndToEndScn ==
    [BaseScn EXCEPT ![3].hdr = Direccion \o <<"\n">>,
                    ![6].hdr = GapLabel(<<" ", " ">>),
                    ![8].hdr = Plazas \o <<" ">>]

Start(sheet) ==
    /\ uploaded = sheet
    /\ columns = sheet.columns
    /\ rows = sheet.rows
    /\ pc = "read"
    /\ halt = "no"
    /\ sel = NoSelection
    /\ df_f = <<>>
    /\ out = EmptyPage

\* Sheets in which one field is spelled as one of its aliases.
InitAlias ==
    \E f \in 1..Len(aliases) : \E k \in 1..Len(aliases[f].opts) :
    \E s \in SpellingsOf(aliases[f].opts[k]) : \E e \in Companions(f) :
    \E front \in BOOLEAN :
        /\ Distinct(AliasScn(f, s, e, front))
        /\ Start(BuildSheet(AliasScn(f, s, e, front), HeaderSheetRows))

\* Sheets that lack some of the required fields.
InitMissing ==
    \E keep \in (SUBSET (1..Len(required))) \ {1..Len(required)} :
        Start(BuildSheet(Keep(BaseScn, keep) \o <<[hdr |-> Noise, slot |-> 0]>>,
                         HeaderSheetRows))

\* Sheets with one more label, made of a letter and whitespace characters.
InitWhitespace ==
    \E n \in 1..MaxLen : \E w \in [1..n -> Alphabet] :
        Start(BuildSheet(BaseScn \o <<[hdr |-> w, slot |-> 0]>>, HeaderSheetRows))

\* Sheets whose "Tipo de Plaza" label has a gap of whitespace, and the
\* end-to-end sheet.
InitGap ==
    \/ \E n \in 1..3 : \E gap \in [1..n -> Whitespace] :
           Start(BuildSheet([BaseScn EXCEPT ![6].hdr = GapLabel(gap)], HeaderSheetRows))
    \/ Start(BuildSheet(EndToEndScn, HeaderSheetRows))

\* Runs over sheets that differ in their header row.
InitHeaders ==
    InitAlias \/ InitMissing \/ InitWhitespace \/ InitGap

\* Runs over sheets with the canonical header row that differ in the rows the
\* Row Cleaner and the Filter Engine see.
InitClean ==
    \E n \in 0..MaxCleanRows : \E t \in [1..n -> CleanPalette] :
        Start(BuildSheet(BaseScn, t))

\* Runs over sheets with the canonical header row that differ in the rows the
\* two tabs aggregate.
InitAgg ==
    \E n \in 0..MaxAggRows : \E t \in [1..n -> AggPalette] :
        Start(BuildSheet(BaseScn, t))

SpecHeaders ==
    InitHeaders /\ [][Next]_vars

SpecClean ==
    InitClean /\ [][Next]_vars

SpecAgg ==
    InitAgg /\ [][Next]_vars

(***************************************************************************)
(* Properties of the header pipeline, checked under SpecHeaders.           *)
(***************************************************************************)

RequiredSet ==
    {required[f] : f \in 1..Len(required)}

LabelSet(cols) ==
    {cols[i] : i \in 1..Len(cols)}

SeqSet(s) ==
    {s[i] : i \in 1..Len(s)}

PastGate ==
    pc \in {"validated", "coerced", "cleaned", "filtered", "tab1", "tab2"}

\* C1: when a required canonical field is not a column name, the reported list
\* is exactly the required fields that are not column names and the run halts
\* there: the rows are never cleaned, nothing is filtered, no chart, KPI or
\* table is shown and no further step is possible.  When none is missing,
\* nothing is reported and the run goes on to the Row Cleaner.
C1_SchemaGate ==
    /\ halt = "stop" =>
          /\ pc = "aliased"
          /\ SeqSet(out.missing) = RequiredSet \ LabelSet(columns)
          /\ SeqSet(out.missing) # {}
          /\ out.detected = columns
          /\ out.shown = {"error", "detected"}
          /\ rows = uploaded.rows
          /\ sel = NoSelection /\ df_f = <<>>
          /\ ~ENABLED Next
    /\ PastGate =>
          /\ RequiredSet \subseteq LabelSet(columns)
          /\ out.missing = <<>>
          /\ "error" \notin out.shown
    /\ (pc = "aliased" /\ halt = "no") =>
          /\ ENABLED EnsureRequired
          /\ out = EmptyPage

\* A sheet without Justificación and without Plazas has been stopped at the gate.
C1_Witness ==
    /\ halt = "stop"
    /\ SeqSet(out.missing) = {Justificacion, Plazas}

\* C2: once the Schema Validator has passed, each of the eight required
\* canonical names is the name of exactly one column.
C2_ExactlyOneColumn ==
    PastGate => \A f \in 1..Len(required) : Cardinality(Pos(columns, required[f])) = 1

HasChar(s, c) ==
    \E i \in 1..Len(s) : s[i] = c

\* C3: a normalized header holds no newline, carriage return or tab, no run of
\* two spaces and no leading or trailing whitespace, and normalizing it again
\* changes nothing.
C3_NormalizerCollapses ==
    pc = "normalized" =>
        /\ \A i \in 1..Len(columns) :
              /\ ~HasChar(columns[i], "\n")
              /\ ~HasChar(columns[i], "\r")
              /\ ~HasChar(columns[i], "\t")
              /\ ~HasDouble(columns[i])
              /\ Strip(columns[i]) = columns[i]
        /\ normalize_columns(columns) = columns

\* The search key of a raw label: whitespace runs collapsed, trimmed, lower case.
SearchKey(h) ==
    Lower(Strip(CollapseSpaces(
        ReplaceChar(ReplaceChar(ReplaceChar(h, "\n", " "), "\r", " "), "\t", " "))))

\* The spellings of the aliases of each field, and the aliases as a set.
AliasSpellings ==
    [f \in 1..Len(aliases) |->
        UNION {SpellingsOf(aliases[f].opts[k]) : k \in 1..Len(aliases[f].opts)}]

AliasSet ==
    [f \in 1..Len(aliases) |-> SeqSet(aliases[f].opts)]

\* C6: when a raw label is an upper/lower-case, whitespace-padded spelling of an
\* alias of field F and no other label of the sheet is relevant to F (none has
\* an alias of F as its search key), the resolved table has exactly one column
\* named F, and it is that label's column.
C6_AliasResolves ==
    pc = "aliased" =>
        LET keys == [j \in 1..Len(columns) |-> SearchKey(uploaded.columns[j])] \o <<>>
        IN  \A f \in 1..Len(aliases) : \A i \in 1..Len(columns) :
              (/\ uploaded.columns[i] \in AliasSpellings[f]
               /\ \A j \in 1..Len(columns) : j # i => keys[j] \notin AliasSet[f])
              => Pos(columns, aliases[f].canonical) = {i}

\* "NUM PLAZAS", padded with a tab and spaces, has become the Plazas column.
C6_Witness ==
    /\ pc = "aliased"
    /\ \E i \in 1..Len(columns) :
          /\ uploaded.columns[i] =
                <<"\t", " ", "N", "U", "M", " ", "P", "L", "A", "Z", "A", "S", " ", " ">>
          /\ Pos(columns, Plazas) = {i}

\* The alias of field f that alias resolution settles on for the labels cols:
\* the earliest alias of f that is the search key of some label (0: none).
EarliestAlias(cols, f) ==
    LET hits == {k \in 1..Len(aliases[f].opts) :
                    \E i \in 1..Len(cols) : SearchKey(cols[i]) = aliases[f].opts[k]}
    IN  IF hits = {} THEN 0 ELSE CHOOSE k \in hits : \A j \in hits : k <= j

\* C10: alias resolution keeps the number and order of the columns and renames,
\* for each canonical field, at most one header: one matched by the earliest
\* alias of that field that any header matches.  Every other header keeps its
\* name.
C10_RenamesOnePerField ==
    pc = "aliased" =>
        LET before == normalize_columns(uploaded.columns)
        IN  /\ Len(columns) = Len(before)
            /\ \A f \in 1..Len(aliases) :
                  LET renamed == {i \in 1..Len(columns) :
                                     /\ columns[i] # before[i]
                                     /\ columns[i] = aliases[f].canonical}
                  IN  /\ Cardinality(renamed) <= 1
                      /\ \A i \in renamed :
                            /\ EarliestAlias(before, f) # 0
                            /\ SearchKey(before[i])
                                 = aliases[f].opts[EarliestAlias(before, f)]
            /\ \A i \in 1..Len(columns) :
                  columns[i] # before[i] =>
                      \E f \in 1..Len(aliases) : columns[i] = aliases[f].canonical

(***************************************************************************)
(* Properties of the Row Cleaner and the Filter Engine, checked under      *)
(* SpecClean.  The header row of these sheets is canonical, so the column  *)
(* of a field is found by its name.                                        *)
(***************************************************************************)

\* The text of a cell, trimmed and uppercased.
TrimmedUpper(v) ==
    Upper(Strip(AsText(v)))

\* The two defects of a row: no Tipo de Plaza, or a total in a key column.
Defect(cols, row) ==
    \/ Cell(cols, row, TipoDePlaza) = Null
    \/ \E name \in {Direccion, TipoDePlaza, Unidad, Coordinacion} :
          TrimmedUpper(Cell(cols, row, name)) \in {TOTAL, TOTALES}

Passes(cols, row, name, chosen) ==
    chosen = {} \/ Cell(cols, row, name) \in chosen

\* C5: the filtered view is exactly the rows of the clean table, in order, that
\* pass the selections of Unidad, Coordinación and Dirección; the empty
\* selection gives the clean table back, and applying the three restrictions
\* in another order gives the same view.
C5_FilteredView ==
    pc \in {"filtered", "tab1", "tab2"} =>
        /\ df_f = SelectSeq(rows, LAMBDA row :
                     /\ Passes(columns, row, Unidad, sel.unidad)
                     /\ Passes(columns, row, Coordinacion, sel.coord)
                     /\ Passes(columns, row, Direccion, sel.dir))
        /\ sel = NoSelection => df_f = rows
        /\ df_f = Restrict(columns,
                           Restrict(columns,
                                    Restrict(columns, rows, Direccion, sel.dir),
                                    Coordinacion, sel.coord),
                           Unidad, sel.unidad)
        /\ df_f = Restrict(columns,
                           Restrict(columns,
                                    Restrict(columns, rows, Coordinacion, sel.coord),
                                    Unidad, sel.unidad),
                           Direccion, sel.dir)

\* Three non-empty selections that keep some rows of the clean table, not all.
C5_Witness ==
    /\ pc = "filtered"
    /\ sel.unidad # {} /\ sel.coord # {} /\ sel.dir # {}
    /\ Len(df_f) > 0
    /\ Len(df_f) < Len(rows)

(***************************************************************************)
(* Properties of the two tabs, checked under SpecAgg.                      *)
(***************************************************************************)

\* A justified cell: present, and its text, trimmed, neither empty nor (in
\* upper case) NAN or NONE.
JustifiedCell(v) ==
    /\ v # Null
    /\ Strip(AsText(v)) # <<>>
    /\ TrimmedUpper(v) \notin {NAN, NONE}

JustifiedView ==
    SelectSeq(df_f, LAMBDA row : JustifiedCell(Cell(columns, row, Justificacion)))

\* Twice the sum of the numeric Plazas of rs, a missing Plazas counting zero.
RECURSIVE TwiceSum(_)
TwiceSum(rs) ==
    IF rs = <<>> THEN 0
    ELSE (IF Cell(columns, Head(rs), Plazas).t = "num"
          THEN Cell(columns, Head(rs), Plazas).n ELSE 0)
         + TwiceSum(Tail(rs))

NumericText(v) ==
    v.t = "str" /\ v.s # <<>> /\ \A i \in 1..Len(v.s) : IsDigit(v.s[i])

\* What C7 says of the coercion itself.
CoercionNeverFails ==
    /\ ~(pc = "validated" /\ halt = "raise")
    /\ pc \in {"coerced", "cleaned", "filtered", "tab1", "tab2"} =>
          \A r \in 1..Len(rows) : Cell(columns, rows[r], Plazas).t \in {"num", "null"}
    /\ pc = "coerced" =>
          \A r \in 1..Len(rows) :
              LET raw == Cell(columns, uploaded.rows[r], Plazas)
              IN  /\ (raw.t = "str" /\ ~NumericText(raw))
                        => Cell(columns, rows[r], Plazas) = Null
                  /\ raw = Null => Cell(columns, rows[r], Plazas) = Null
                  /\ raw.t = "num" => Cell(columns, rows[r], Plazas) = raw

\* C7: the coercion never fails, and 'Plazas (suma)' equals the sum
\* of the numeric Plazas of the justified rows.
C7_SumaIsTheSum ==
    /\ CoercionNeverFails
    /\ "kpis" \in out.shown => 2 * out.suma = TwiceSum(JustifiedView)

\* Position of a hierarchy value in ORDEN_PUESTO.
Rank(v) ==
    CHOOSE k \in 1..Len(ORDEN_PUESTO) : ORDEN_PUESTO[k] = v.s

\* C8: the sequence of the 'Tipo de Puesto' chart lists every value occurring in
\* the view (a missing one under its label) exactly once with its number of
\* records; the values of the hierarchy come first, in hierarchy order, and
\* the other values follow by descending count.
C8_PuestoOrder ==
    "puesto" \in out.shown =>
        LET series == FillNa(Column(columns, df_f, TipoDePuesto), SinTipoDePuesto)
            chart  == out.puesto_count
        IN  /\ {chart[i][1] : i \in 1..Len(chart)} = Values(series)
            /\ Len(chart) = Cardinality(Values(series))
            /\ \A i \in 1..Len(chart) :
                  /\ chart[i][2] = CountOf(series, chart[i][1])
                  /\ chart[i][2] > 0
            /\ \A i, j \in 1..Len(chart) :
                  i < j =>
                    /\ ~InOrden(chart[i][1]) => ~InOrden(chart[j][1])
                    /\ (InOrden(chart[i][1]) /\ InOrden(chart[j][1]))
                          => Rank(chart[i][1]) < Rank(chart[j][1])
                    /\ (~InOrden(chart[i][1]) /\ ~InOrden(chart[j][1]))
                          => chart[i][2] >= chart[j][2]

\* One Gerente is charted before two Enlace.
C8_Witness ==
    /\ "puesto" \in out.shown
    /\ out.puesto_count = <<<<Str(Gerente), 1>>, <<Str(Enlace), 2>>>>

\* C9: the justification table holds exactly the justified rows of the view, in
\* view order; 'Registros con justificación' is their number, 'Registros
\* (detalle)' the number of rows of the view, and justified <= view <= clean
\* table.
C9_JustifiedTable ==
    pc = "tab2" =>
        /\ out.tabla =
              [r \in 1..Len(JustifiedView) |->
                  LET row == JustifiedView[r]
                  IN  <<Cell(columns, row, Unidad), Cell(columns, row, Coordinacion),
                        Cell(columns, row, Direccion), Cell(columns, row, TipoDePuesto),
                        Cell(columns, row, TipoDePlaza), Cell(columns, row, Plazas),
                        Str(AsText(Cell(columns, row, Justificacion)))>>]
        /\ out.justificados = Len(JustifiedView)
        /\ out.detalle = Len(df_f)
        /\ out.justificados <= out.detalle
        /\ out.detalle <= Len(rows)

\* Fewer justified rows than rows in the view, fewer rows in the view than in
\* the clean table.
C9_Witness ==
    /\ pc = "tab2"
    /\ 0 < out.justificados
    /\ out.justificados < out.detalle
    /\ out.detalle < Len(rows)
====
